---- MODULE Spec2Model ----
(***************************************************************************)
(* Model of the Streamlit dashboard pages of the AI job market project.    *)
(*                                                                         *)
(* The page "A multidimensional comparative analysis of job roles in the   *)
(* field of AI" is a script that Streamlit executes from top to bottom on  *)
(* every page load, widget change and rerun.  One action of SpecPage is    *)
(* one such execution.  SpecNorm applies the normalization step of the     *)
(* metric loop (lines 97-111) to bounded frames of raw values.             *)
(*                                                                         *)
(* Floats are modelled as exact rationals in lowest terms plus NaN, the    *)
(* value pandas uses for "no data"; rounding is not modelled.              *)
(***************************************************************************)
EXTENDS Integers, Sequences, FiniteSets, TLC

VARIABLES
    file_found,        \* whether DATA_FILE exists (load_data returns None if not)
    df,                \* the loaded dataset: a sequence of rows (column -> cell)
    df_columns,        \* df.columns
    checked,           \* widget state: names of the ticked metric checkboxes
    METRICS_CONFIG,    \* metric name -> [column, agg], as left by the last run
    selected_metrics,  \* list built by the checkbox loop of the last run
    plot_data,         \* list of per-metric frames of the last run
    plot_df,           \* pd.concat(plot_data) of the last run
    temp_df,           \* the frame the metric loop body is working on
    loop_config,       \* config = METRICS_CONFIG[metric] of the metric being processed
    job_order,         \* sorted(df["job_title"].unique()) of the last run
    pivot_df,          \* plot_df.pivot(...) of the last run: job -> metric -> raw
    skills_version,    \* which copy of the skills page is running
    agg_stats,         \* skills page: groupby('skills_list').agg(...) of the selection
    check_all,         \* skills page widget: the "All Levels" checkbox
    level_checked,     \* skills page widget: the checkbox of the experience level
    skill_stats,       \* skills page: the table the chart is drawn from
    top_skills,        \* skills page: names returned by nlargest(num_labels, 'Score')
    steps,             \* skills page: processing stages the last run went through
    primary_country,   \* Home: st.session_state['primary_country']
    secondary_country, \* Home: st.session_state['secondary_country']
    compare_mode,      \* Home: st.session_state['compare_mode']
    show_global_top10, \* Home: st.session_state['show_global_top10']
    view_mode,         \* Home widget: the "Select View Mode:" radio
    selection,         \* Home widget: the country selected on the displayed map
    job_counts,        \* salary page: records per job title after the sidebar filters
    top_n,             \* salary page widget: the Top N slider
    valid_jobs,        \* salary page: titles with at least 5 records
    top_jobs,          \* salary page: titles kept by the Top N step
    country_column,    \* salary page: whether the dataset has a column "country"
    n_countries,       \* salary page: len(country_counts) for the selected job
    slider,            \* salary page: arguments the country slider was created with
    num_countries,     \* salary page widget: value of the country slider
    shown_countries,   \* salary page: number of countries in the dot plot
    file1_exists,      \* preprocessing: ai_job_dataset.csv exists
    file2_exists,      \* preprocessing: ai_job_dataset1.csv exists
    df1,               \* preprocessing: first dataset (columns, rows)
    df2,               \* preprocessing: second dataset (columns, rows)
    output_file,       \* preprocessing: contents of database_ai_job_final.csv
    outcome,           \* how the last script run ended
    message,           \* what the last run reported (st.error / st.warning / exception)
    trigger            \* what started the last run

pageVars == <<df, df_columns, checked, METRICS_CONFIG, selected_metrics, loop_config,
              plot_data, plot_df, temp_df, job_order, pivot_df>>

skillVars == <<skills_version, agg_stats, check_all, level_checked, skill_stats,
               top_skills, steps>>

homeVars == <<primary_country, secondary_country, compare_mode, show_global_top10,
              view_mode, selection>>

salaryVars == <<job_counts, top_n, valid_jobs, top_jobs, country_column, n_countries,
                slider, num_countries, shown_countries>>

mergeVars == <<file1_exists, file2_exists, df1, df2, output_file>>

restVars == <<homeVars, salaryVars, mergeVars>>

vars == <<file_found, pageVars, skillVars, restVars, outcome, message, trigger>>

-----------------------------------------------------------------------------
(* Bounds of the model.                                                    *)

MaxRows == 3          \* rows of the dataset
MaxRawSteps == 3      \* raw values of SpecNorm are 50 * (0..MaxRawSteps)

-----------------------------------------------------------------------------
(* Floats: NaN or a rational num/den in lowest terms, den > 0.             *)

NaN == [nan |-> TRUE, num |-> 0, den |-> 1]

Abs(n) == IF n < 0 THEN -n ELSE n

RECURSIVE GCD(_, _)
GCD(a, b) == IF b = 0 THEN a ELSE GCD(b, a % b)

Frac(n, d) ==
    LET s == IF d < 0 THEN -1 ELSE 1
        g == GCD(Abs(n), Abs(d))
    IN  [nan |-> FALSE, num |-> (s * n) \div g, den |-> (s * d) \div g]

IsNaN(x) == x.nan

\* x - y; NaN if either operand is NaN
FSub(x, y) ==
    IF x.nan \/ y.nan THEN NaN
    ELSE Frac(x.num * y.den - y.num * x.den, x.den * y.den)

\* x / y; NaN if either operand is NaN (0/0 is NaN as well)
FDiv(x, y) ==
    IF x.nan \/ y.nan \/ y.num = 0 THEN NaN
    ELSE Frac(x.num * y.den, x.den * y.num)

\* x < y, x <= y; every comparison with NaN is false
FLt(x, y) == ~x.nan /\ ~y.nan /\ x.num * y.den < y.num * x.den
FLe(x, y) == ~x.nan /\ ~y.nan /\ x.num * y.den <= y.num * x.den

\* x == 0 as Python evaluates it (False for NaN)
FIsZero(x) == ~x.nan /\ x.num = 0

One == Frac(1, 1)

-----------------------------------------------------------------------------
(* pandas Series reductions over the raw_value column of a frame.          *)

\* Series.min(): the least non-NaN value, NaN if there is none (skipna)
SeriesMin(vals) ==
    LET ok == {v \in vals : ~v.nan}
    IN  IF ok = {} THEN NaN ELSE CHOOSE m \in ok : \A v \in ok : FLe(m, v)

\* Series.max(): the greatest non-NaN value, NaN if there is none (skipna)
SeriesMax(vals) ==
    LET ok == {v \in vals : ~v.nan}
    IN  IF ok = {} THEN NaN ELSE CHOOSE m \in ok : \A v \in ok : FLe(v, m)

RawValues(frame) == {frame[i].raw_value : i \in DOMAIN frame}

-----------------------------------------------------------------------------
(* Normalization step of the metric loop.                                  *)

\* epsilon = 0.02
epsilon == Frac(2, 100)

\* a tie branch that assigns 0 instead of 1.0
TieValueZero == Frac(0, 1)

\* the value assigned in the branch where max_val - min_val == 0
TieValue == One

\* Series.clip(lower=lo) on one value: NaN stays NaN
ClipLower(x, lo) == IF x.nan THEN NaN ELSE IF FLt(x, lo) THEN lo ELSE x

\* scaling that divides by max_val instead of the range
MinMaxScaleByMax(raw, min_val, max_val) == FDiv(FSub(raw, min_val), max_val)

\* scaling that measures from max_val, so that larger raw values score lower
MinMaxScaleInverted(raw, min_val, max_val) ==
    FDiv(FSub(max_val, raw), FSub(max_val, min_val))

\* (raw - min_val) / (max_val - min_val)
MinMaxScale(raw, min_val, max_val) == FDiv(FSub(raw, min_val), FSub(max_val, min_val))

\* if max_val - min_val == 0
IsTie(min_val, max_val) == FIsZero(FSub(max_val, min_val))

\* normalized_value of one row before the clip
Scaled(raw, min_val, max_val) ==
    IF IsTie(min_val, max_val) THEN TieValue ELSE MinMaxScale(raw, min_val, max_val)

\* lines 97-111: adds the normalized_value column to a frame
Normalize(frame) ==
    LET min_val == SeriesMin(RawValues(frame))
        max_val == SeriesMax(RawValues(frame))
    IN  [i \in DOMAIN frame |->
            [job_title |-> frame[i].job_title,
             raw_value |-> frame[i].raw_value,
             normalized_value |->
                 ClipLower(Scaled(frame[i].raw_value, min_val, max_val), epsilon)]]

-----------------------------------------------------------------------------
(* The dataset.  A cell is << >> (null) or <<v>>; job_title cells are      *)
(* strings and never null.  A row maps each column of df to its cell.      *)

None == "None"

\* job titles in sorted order (groupby emits its groups sorted by key)
JobOrder == <<"A", "B", "C">>

\* column sets of the datasets explored: the full schema, a schema without
\* the grouping column, one without a metric column, one whose remote column
\* has the display name, and one without any remote column
AllColumns ==
    {"job_title", "salary_usd", "years_experience", "benefits_score", "remote_ratio"}

Layouts ==
    { AllColumns,
      AllColumns \ {"job_title"},
      AllColumns \ {"salary_usd"},
      (AllColumns \ {"remote_ratio"}) \cup {"Remote Work Ratio (%)"},
      AllColumns \ {"remote_ratio"} }

DataJobs == <<"A", "B">>
SalaryCells == << << >>, <<100>>, <<150>>, <<200>> >>

NumRowTypes == Len(DataJobs) * Len(SalaryCells)

\* the k-th kind of row, with every column any layout may have
FullRow(k) ==
    [c \in AllColumns \cup {"Remote Work Ratio (%)"} |->
        CASE c = "job_title" -> DataJobs[((k - 1) \div Len(SalaryCells)) + 1]
          [] c = "salary_usd" -> SalaryCells[((k - 1) % Len(SalaryCells)) + 1]
          [] c = "years_experience" -> <<5>>
          [] c = "benefits_score" -> <<7>>
          [] OTHER -> <<50>>]

RowOf(k, cols) == [c \in cols |-> FullRow(k)[c]]

\* one dataset per multiset of at most MaxRows rows (rows listed in the
\* order of their kind)
Datasets(cols) ==
    LET idx == UNION {[1..n -> 1..NumRowTypes] : n \in 0..MaxRows}
        asc == {s \in idx : \A i \in DOMAIN s : \A j \in DOMAIN s : i < j => s[i] <= s[j]}
    IN  {[i \in DOMAIN s |-> RowOf(s[i], cols)] : s \in asc}

-----------------------------------------------------------------------------
(* groupby("job_title") and its three aggregations.                        *)

\* a groupby that emits every known job title, with or without rows
GroupKeysAll(d) == JobOrder

\* the groups of df.groupby("job_title"), sorted by key
GroupKeys(d) ==
    SelectSeq(JobOrder, LAMBDA j : \E i \in DOMAIN d : d[i]["job_title"] = j)

GroupRows(d, j) == {i \in DOMAIN d : d[i]["job_title"] = j}

\* rows of group j whose cell in column c is not null
NonNull(d, j, c) == {i \in GroupRows(d, j) : d[i][c] # << >>}

RECURSIVE SumCells(_, _, _)
SumCells(d, c, rows) ==
    IF rows = {} THEN 0
    ELSE LET i == CHOOSE r \in rows : TRUE
         IN  d[i][c][1] + SumCells(d, c, rows \ {i})

\* a row count that forgets the group
GroupSizeAll(d, j) == Frac(Len(d), 1)

\* .size(): rows per group
GroupSize(d, j) == Frac(Cardinality(GroupRows(d, j)), 1)

\* a distinct count that takes null as one more value (dropna=False)
GroupNuniqueWithNull(d, j, c) ==
    Frac(Cardinality({d[i][c] : i \in GroupRows(d, j)}), 1)

\* [col].nunique(): distinct non-null values per group
GroupNunique(d, j, c) == Frac(Cardinality({d[i][c][1] : i \in NonNull(d, j, c)}), 1)

\* a divisor that counts the null cells too (null taken as zero)
MeanCountAllRows(d, j, c) == Cardinality(GroupRows(d, j))

\* divisor of the group mean: the number of non-null cells
MeanCount(d, j, c) == Cardinality(NonNull(d, j, c))

\* [col].mean(): mean of the non-null values per group, NaN if there is none
GroupMean(d, j, c) ==
    IF NonNull(d, j, c) = {} THEN NaN
    ELSE Frac(SumCells(d, c, NonNull(d, j, c)), MeanCount(d, j, c))

\* lines 90-95: raw_value of group j under one metric configuration
RawValue(d, j, config) ==
    IF config.agg = "size" THEN GroupSize(d, j)
    ELSE IF config.agg = "nunique" THEN GroupNunique(d, j, config.column)
    ELSE GroupMean(d, j, config.column)

\* the column a groupby of this configuration cannot find, None if it finds all
MissingKey(cols, config) ==
    IF "job_title" \notin cols THEN "job_title"
    ELSE IF config.agg # "size" /\ config.column \notin cols THEN config.column
    ELSE None

\* an aggregation that leaves out the groups whose raw value is NaN
AggregateDropNaN(d, config) ==
    LET keys == SelectSeq(GroupKeys(d), LAMBDA j : ~RawValue(d, j, config).nan)
    IN  [g \in DOMAIN keys |->
            [job_title |-> keys[g], raw_value |-> RawValue(d, keys[g], config)]]

\* lines 90-95: temp_df after reset_index(name="raw_value")
Aggregate(d, config) ==
    LET keys == GroupKeys(d)
    IN  [g \in DOMAIN keys |->
            [job_title |-> keys[g], raw_value |-> RawValue(d, keys[g], config)]]

-----------------------------------------------------------------------------
(* Metric configuration and selection.                                     *)

all_metrics ==
    <<"Average Salary (USD)", "Job Count", "Years of Experience",
      "Benefits Score", "Remote Work Ratio (%)">>

default_metrics == {"Average Salary (USD)", "Job Count"}

MetricNames == {all_metrics[i] : i \in DOMAIN all_metrics}

\* lines 45-51
ConfigLiteral ==
    [m \in MetricNames |->
        CASE m = "Average Salary (USD)" -> [column |-> "salary_usd", agg |-> "mean"]
          [] m = "Job Count" -> [column |-> None, agg |-> "size"]
          [] m = "Years of Experience" -> [column |-> "years_experience", agg |-> "mean"]
          [] m = "Benefits Score" -> [column |-> "benefits_score", agg |-> "mean"]
          [] OTHER -> [column |-> "remote_ratio", agg |-> "mean"]]

\* a name variation applied whenever remote_ratio is absent
ConfigForAnyAbsence(cols) ==
    IF "remote_ratio" \notin cols
    THEN [ConfigLiteral EXCEPT !["Remote Work Ratio (%)"].column = "Remote Work Ratio (%)"]
    ELSE ConfigLiteral

\* lines 53-55: the column name variation of the remote metric
ConfigFor(cols) ==
    IF "Remote Work Ratio (%)" \in cols /\ "remote_ratio" \notin cols
    THEN [ConfigLiteral EXCEPT !["Remote Work Ratio (%)"].column = "Remote Work Ratio (%)"]
    ELSE ConfigLiteral

\* lines 68-73: the ticked metrics in the order of all_metrics
SelectedOf(chk) == SelectSeq(all_metrics, LAMBDA m : m \in chk)

\* a selection check that never stops the script
NoSelectionNever(sel) == FALSE

\* line 75: if not selected_metrics
NoSelection(sel) == sel = << >>

-----------------------------------------------------------------------------
(* One execution of the page script.                                       *)

NoMessage == [kind |-> "none", text |-> ""]
FileError == [kind |-> "st.error", text |-> "File 'database_ai_job_final.csv' not found."]
NoMetricsWarning ==
    [kind |-> "st.warning", text |-> "Please select at least one metric to visualize."]
KeyError(k) == [kind |-> "KeyError", text |-> k]
ConcatError == [kind |-> "ValueError", text |-> "No objects to concatenate"]

\* a plot_data list that keeps the frames of the previous run
StalePlotData == plot_data

\* line 82: plot_data = []
EmptyPlotData == << >>

\* line 113: temp_df["metric"] = metric
WithMetric(frame, metric) ==
    [i \in DOMAIN frame |->
        [job_title |-> frame[i].job_title,
         raw_value |-> frame[i].raw_value,
         normalized_value |-> frame[i].normalized_value,
         metric |-> metric]]

\* normalization whose min and max range over the given raw values
NormalizeOver(frame, vals) ==
    [i \in DOMAIN frame |->
        [job_title |-> frame[i].job_title,
         raw_value |-> frame[i].raw_value,
         normalized_value |->
             ClipLower(Scaled(frame[i].raw_value, SeriesMin(vals), SeriesMax(vals)), epsilon)]]

\* a metric loop whose min and max range over all frames built so far
RECURSIVE MetricLoopSharedScale(_, _, _, _, _, _)
MetricLoopSharedScale(d, cols, config, sel, i, st) ==
    IF i > Len(sel) THEN st
    ELSE LET metric == sel[i]
             missing == MissingKey(cols, config[metric])
             agg == Aggregate(d, config[metric])
             seen == UNION {RawValues(st.plot_data[k]) : k \in DOMAIN st.plot_data}
         IN  IF missing # None
             THEN [st EXCEPT !.raised = KeyError(missing), !.config = config[metric]]
             ELSE LET frame == WithMetric(NormalizeOver(agg, seen \cup RawValues(agg)), metric)
                  IN  MetricLoopSharedScale(d, cols, config, sel, i + 1,
                          [plot_data |-> Append(st.plot_data, frame),
                           temp_df |-> frame,
                           config |-> config[metric],
                           raised |-> NoMessage])

\* lines 84-114: the metric loop from the i-th selected metric on.  st holds
\* plot_data so far and the current temp_df and config; an uncaught exception
\* of an aggregation ends the loop.
RECURSIVE MetricLoop(_, _, _, _, _, _)
MetricLoop(d, cols, config, sel, i, st) ==
    IF i > Len(sel) THEN st
    ELSE LET metric == sel[i]
             missing == MissingKey(cols, config[metric])
         IN  IF missing # None
             THEN [st EXCEPT !.raised = KeyError(missing), !.config = config[metric]]
             ELSE LET frame == WithMetric(Normalize(Aggregate(d, config[metric])), metric)
                  IN  MetricLoop(d, cols, config, sel, i + 1,
                          [plot_data |-> Append(st.plot_data, frame),
                           temp_df |-> frame,
                           config |-> config[metric],
                           raised |-> NoMessage])

RECURSIVE ConcatReversed(_)
\* a concatenation that puts later frames first
ConcatReversed(frames) ==
    IF frames = << >> THEN << >> ELSE ConcatReversed(Tail(frames)) \o Head(frames)

RECURSIVE Concat(_)
\* line 117: pd.concat(plot_data, ignore_index=True)
Concat(frames) ==
    IF frames = << >> THEN << >> ELSE Head(frames) \o Concat(Tail(frames))

\* line 120: sorted(df["job_title"].unique())
JobOrderOf(d) == GroupKeys(d)

\* line 188: pivot raises ValueError when a (job_title, metric) pair occurs twice
PivotDuplicates(t) ==
    \E i \in DOMAIN t : \E j \in DOMAIN t :
        i < j /\ t[i].job_title = t[j].job_title /\ t[i].metric = t[j].metric

\* line 188: plot_df.pivot(index="job_title", columns="metric", values="raw_value");
\* a pair without a row is NaN
Pivot(t) ==
    [j \in {t[i].job_title : i \in DOMAIN t} |->
        [m \in {t[i].metric : i \in DOMAIN t} |->
            IF \E i \in DOMAIN t : t[i].job_title = j /\ t[i].metric = m
            THEN t[CHOOSE i \in DOMAIN t : t[i].job_title = j /\ t[i].metric = m].raw_value
            ELSE NaN]]

PivotError == [kind |-> "ValueError", text |-> "Index contains duplicate entries"]

\* what the variables hold when the script ends, for the ticked boxes chk
RunScript(chk) ==
    LET unset == [METRICS_CONFIG |-> << >>, selected |-> << >>, plot_data |-> << >>,
                  plot_df |-> << >>, temp_df |-> << >>, config |-> << >>,
                  job_order |-> << >>, pivot_df |-> << >>,
                  outcome |-> "stopped", message |-> NoMessage]
        cfg == ConfigFor(df_columns)
        sel == SelectedOf(chk)
        loop == MetricLoop(df, df_columns, cfg, sel, 1,
                    [plot_data |-> EmptyPlotData, temp_df |-> << >>, config |-> << >>,
                     raised |-> NoMessage])
        looped == [unset EXCEPT !.METRICS_CONFIG = cfg, !.selected = sel,
                                !.plot_data = loop.plot_data, !.temp_df = loop.temp_df,
                                !.config = loop.config]
    IN  IF ~file_found
        THEN [unset EXCEPT !.message = FileError]
        ELSE IF NoSelection(sel)
        THEN [unset EXCEPT !.METRICS_CONFIG = cfg, !.message = NoMetricsWarning]
        ELSE IF loop.raised # NoMessage
        THEN [looped EXCEPT !.outcome = "exception", !.message = loop.raised]
        ELSE IF loop.plot_data = << >>
        THEN [looped EXCEPT !.outcome = "exception", !.message = ConcatError]
        ELSE IF PivotDuplicates(Concat(loop.plot_data))
        THEN [looped EXCEPT !.plot_df = Concat(loop.plot_data),
                            !.job_order = JobOrderOf(df),
                            !.outcome = "exception", !.message = PivotError]
        ELSE [looped EXCEPT !.plot_df = Concat(loop.plot_data),
                            !.job_order = JobOrderOf(df),
                            !.pivot_df = Pivot(Concat(loop.plot_data)),
                            !.outcome = "rendered"]

Execute(chk, why) ==
    \E r \in {RunScript(chk)} :
        /\ checked' = chk
        /\ METRICS_CONFIG' = r.METRICS_CONFIG
        /\ selected_metrics' = r.selected
        /\ plot_data' = r.plot_data
        /\ plot_df' = r.plot_df
        /\ temp_df' = r.temp_df
        /\ loop_config' = r.config
        /\ job_order' = r.job_order
        /\ pivot_df' = r.pivot_df
        /\ outcome' = r.outcome
        /\ message' = r.message
        /\ trigger' = why
        /\ UNCHANGED <<file_found, df, df_columns, skillVars, restVars>>

\* the first execution, with the checkboxes at their defaults
PageLoad ==
    /\ outcome = "idle"
    /\ Execute(checked, "load")

\* the user ticks or unticks the checkbox of metric m; the script runs again
ToggleCheckbox(m) ==
    /\ outcome \in {"stopped", "exception", "rendered"}
    /\ file_found
    /\ Execute(IF m \in checked THEN checked \ {m} ELSE checked \cup {m}, "widget")

\* the script runs again with the widgets as they are
Rerun ==
    /\ outcome \in {"stopped", "exception", "rendered"}
    /\ Execute(checked, "rerun")

\* the Home page is not open: the session state holds its initial values
HomeClosed ==
    /\ primary_country = None
    /\ secondary_country = None
    /\ compare_mode = "Standard View"
    /\ show_global_top10 = FALSE
    /\ view_mode = "Comparator"
    /\ selection = None

\* the salary page is not open
SalaryClosed ==
    /\ job_counts = << >>
    /\ top_n = 10
    /\ valid_jobs = {}
    /\ top_jobs = {}
    /\ country_column = FALSE
    /\ n_countries = 0
    /\ slider = << >>
    /\ num_countries = 0
    /\ shown_countries = 0

\* database_ai_job_final.csv has not been written
NotWritten == [exists |-> FALSE]

\* the preprocessing script is not running
MergeClosed ==
    /\ file1_exists = FALSE
    /\ file2_exists = FALSE
    /\ df1 = << >>
    /\ df2 = << >>
    /\ output_file = NotWritten

RestClosed == HomeClosed /\ SalaryClosed /\ MergeClosed

\* the skills page is not open
SkillsClosed ==
    /\ skills_version = "none"
    /\ agg_stats = << >>
    /\ check_all = TRUE
    /\ level_checked = TRUE
    /\ skill_stats = << >>
    /\ top_skills = << >>
    /\ steps = << >>

InitPage ==
    /\ SkillsClosed
    /\ RestClosed
    /\ loop_config = << >>
    /\ job_order = << >>
    /\ pivot_df = << >>
    /\ file_found \in BOOLEAN
    /\ df_columns \in (IF file_found THEN Layouts ELSE {{}})
    /\ df \in (IF file_found THEN Datasets(df_columns) ELSE {<< >>})
    /\ checked = default_metrics
    /\ METRICS_CONFIG = << >>
    /\ selected_metrics = << >>
    /\ plot_data = << >>
    /\ plot_df = << >>
    /\ temp_df = << >>
    /\ outcome = "idle"
    /\ message = NoMessage
    /\ trigger = "none"

NextPage ==
    \/ PageLoad
    \/ \E m \in MetricNames : ToggleCheckbox(m)
    \/ Rerun

SpecPage == InitPage /\ [][NextPage]_vars

-----------------------------------------------------------------------------
(* The normalization step on its own, over bounded frames of raw values.   *)

RawDomain == {Frac(50 * k, 1) : k \in 0..MaxRawSteps} \cup {NaN}

\* frames of raw values: zero or more of the job titles in sorted order,
\* each with a raw value
RawFrames ==
    LET keysets == SUBSET {JobOrder[i] : i \in DOMAIN JobOrder}
        KeysOf(S) == SelectSeq(JobOrder, LAMBDA j : j \in S)
    IN  UNION {
          {[g \in 1..Cardinality(S) |-> [job_title |-> KeysOf(S)[g], raw_value |-> f[g]]]
              : f \in [1..Cardinality(S) -> RawDomain]}
          : S \in keysets}

InitNorm ==
    /\ SkillsClosed
    /\ RestClosed
    /\ loop_config = << >>
    /\ job_order = << >>
    /\ pivot_df = << >>
    /\ file_found = TRUE
    /\ df_columns = AllColumns
    /\ df = << >>
    /\ checked = default_metrics
    /\ METRICS_CONFIG = << >>
    /\ selected_metrics = << >>
    /\ plot_data = << >>
    /\ plot_df = << >>
    /\ temp_df \in RawFrames
    /\ outcome = "aggregated"
    /\ message = NoMessage
    /\ trigger = "none"

\* lines 97-111 applied to temp_df
NormalizeStep ==
    /\ outcome = "aggregated"
    /\ temp_df' = Normalize(temp_df)
    /\ outcome' = "normalized"
    /\ UNCHANGED <<file_found, df, df_columns, checked, METRICS_CONFIG,
                   selected_metrics, plot_data, plot_df, loop_config, job_order, pivot_df,
                   skillVars, restVars, message, trigger>>

NextNorm == NormalizeStep

SpecNorm == InitNorm /\ [][NextNorm]_vars

-----------------------------------------------------------------------------
(* The aggregation branches on their own, over the bounded datasets and     *)
(* every aggregator the loop body knows, followed by the normalization.    *)

AggConfigs ==
    {[column |-> None, agg |-> "size"]}
        \cup {[column |-> c, agg |-> a] :
                  c \in {"salary_usd", "years_experience"}, a \in {"nunique", "mean"}}

InitAgg ==
    /\ SkillsClosed
    /\ RestClosed
    /\ loop_config \in AggConfigs
    /\ job_order = << >>
    /\ pivot_df = << >>
    /\ file_found = TRUE
    /\ df_columns = AllColumns
    /\ df \in Datasets(AllColumns)
    /\ checked = default_metrics
    /\ METRICS_CONFIG = << >>
    /\ selected_metrics = << >>
    /\ plot_data = << >>
    /\ plot_df = << >>
    /\ temp_df = << >>
    /\ outcome = "configured"
    /\ message = NoMessage
    /\ trigger = "none"

\* lines 89-95 applied to df under loop_config
AggregateStep ==
    /\ outcome = "configured"
    /\ temp_df' = Aggregate(df, loop_config)
    /\ outcome' = "aggregated"
    /\ UNCHANGED <<file_found, df, df_columns, checked, METRICS_CONFIG,
                   selected_metrics, plot_data, plot_df, loop_config, job_order, pivot_df,
                   skillVars, restVars, message, trigger>>

NextAgg ==
    \/ AggregateStep
    \/ NormalizeStep

SpecAgg == InitAgg /\ [][NextAgg]_vars

-----------------------------------------------------------------------------
(* The page "AI Skills Landscape in the Job Market Demand vs. Salary".     *)
(* The repository holds two copies of it: src/pages/ ("root") and          *)
(* src/Data-Visualization---ProjectStreamlit/pages/ ("nested").  A run     *)
(* starts from agg_stats, the result of groupby('skills_list').agg(...) on *)
(* the rows of the selected experience levels; the dataset has one         *)
(* experience level, or no rows at all when agg_stats is empty.  Text      *)
(* positions are not computed, only the stage is recorded in steps.        *)

\* num_labels = 30
num_labels == 30

\* skill_stats['Job_Count'] >= 10
MinJobCount == 10

MaxSkills == 32        \* skills of a large table: num_labels..MaxSkills
SmallSkills == 2       \* skills of a small table: 0..SmallSkills

\* skill names in sorted order (groupby emits its groups sorted by key)
SkillNames ==
    << "S01", "S02", "S03", "S04", "S05", "S06", "S07", "S08", "S09", "S10",
      "S11", "S12", "S13", "S14", "S15", "S16", "S17", "S18", "S19", "S20",
      "S21", "S22", "S23", "S24", "S25", "S26", "S27", "S28", "S29", "S30",
      "S31", "S32", "S33", "S34", "S35", "S36", "S37", "S38", "S39", "S40" >>

\* x + y; NaN if either operand is NaN
FAdd(x, y) ==
    IF x.nan \/ y.nan THEN NaN
    ELSE Frac(x.num * y.den + y.num * x.den, x.den * y.den)

\* Series.round(0) on one value: to the nearest integer, halves to the even one
Round0(x) ==
    IF x.nan THEN NaN
    ELSE LET q == x.num \div x.den
             r == x.num - q * x.den
         IN  IF 2 * r < x.den THEN Frac(q, 1)
             ELSE IF 2 * r > x.den THEN Frac(q + 1, 1)
             ELSE IF q % 2 = 0 THEN Frac(q, 1) ELSE Frac(q + 1, 1)

\* kinds of aggregated rows: an ordinary skill, a well paid skill in high
\* demand, a badly paid skill, and a skill with fewer postings than MinJobCount
Ordinary == [Average_Salary |-> Frac(100, 1), Job_Count |-> 10]
Marked ==
    { [Average_Salary |-> Frac(200, 1), Job_Count |-> 20],
      [Average_Salary |-> Frac(99, 2), Job_Count |-> 10],
      [Average_Salary |-> Frac(100, 1), Job_Count |-> 5] }

AggRow(k, kind) ==
    [skills_list |-> SkillNames[k],
     Average_Salary |-> kind.Average_Salary,
     Job_Count |-> kind.Job_Count]

\* aggregated tables explored: n ordinary skills, of which one at any
\* position and the last one may be of a marked kind
SkillTables ==
    LET sizes == (0..SmallSkills) \cup (num_labels..MaxSkills)
        kinds == Marked \cup {Ordinary}
    IN  UNION {
          {[k \in 1..n |-> AggRow(k, IF k = n THEN b ELSE IF k = p THEN a ELSE Ordinary)]
              : p \in 1..n, a \in kinds, b \in kinds}
          : n \in sizes} \cup {<< >>}

\* sorted(df['experience_level'].unique()) of the dataset behind t
AllLevelsOf(t) == IF t = << >> THEN << >> ELSE <<"SE">>

\* final_selection: all_levels if "All Levels" is ticked, else the ticked levels
FinalSelection(t, ca, lc) == IF ca \/ lc THEN AllLevelsOf(t) ELSE << >>

\* skill_stats[skill_stats['Job_Count'] >= 10]
FilterNoise(t) == SelectSeq(t, LAMBDA r : r.Job_Count >= MinJobCount)

\* skill_stats['Average_Salary'].round(0)
RoundSalary(t) == [i \in DOMAIN t |-> [t[i] EXCEPT !.Average_Salary = Round0(@)]]

\* a score that looks at the salary only
ScoreSalaryOnly(r, max_salary, max_count) == FDiv(r.Average_Salary, max_salary)

\* Average_Salary / Average_Salary.max() + Job_Count / Job_Count.max()
Score(r, max_salary, max_count) ==
    FAdd(FDiv(r.Average_Salary, max_salary), FDiv(Frac(r.Job_Count, 1), max_count))

\* skill_stats['Score'] = ...
WithScore(t) ==
    LET max_salary == SeriesMax({t[i].Average_Salary : i \in DOMAIN t})
        max_count == SeriesMax({Frac(t[i].Job_Count, 1) : i \in DOMAIN t})
    IN  [i \in DOMAIN t |->
            [skills_list |-> t[i].skills_list,
             Average_Salary |-> t[i].Average_Salary,
             Job_Count |-> t[i].Job_Count,
             Score |-> Score(t[i], max_salary, max_count)]]

\* a tie-break that prefers the later of two rows of equal Score (keep='last')
TieBreakLast(i, j) == j > i

\* nlargest keep='first': of two rows of equal Score, row j goes before row i
\* when it comes earlier in the table
TieBreak(i, j) == j < i

\* number of rows that nlargest puts before row i
RankOf(t, i) ==
    Cardinality({j \in DOMAIN t :
        \/ FLt(t[i].Score, t[j].Score)
        \/ (t[j].Score = t[i].Score /\ TieBreak(i, j))})

\* the first n names of the table in the order of rank
FirstByRank(t, rank, n) ==
    LET m == IF Len(t) < n THEN Len(t) ELSE n
    IN  [k \in 1..m |-> t[CHOOSE i \in DOMAIN t : rank[i] = k - 1].skills_list]

\* skill_stats.nlargest(n, 'Score')['skills_list'].tolist()
NLargest(t, n) ==
    CHOOSE top \in {FirstByRank(t, rank, n) : rank \in {[i \in DOMAIN t |-> RankOf(t, i)]}} : TRUE

\* lambda x: x if x in top_skills else ''
LabelOf(name, top) == IF \E k \in DOMAIN top : top[k] = name THEN name ELSE ""

\* skill_stats['Label'] = skill_stats['skills_list'].apply(...)
WithLabel(t, top) ==
    [i \in DOMAIN t |->
        [skills_list |-> t[i].skills_list,
         Average_Salary |-> t[i].Average_Salary,
         Job_Count |-> t[i].Job_Count,
         Score |-> t[i].Score,
         Label |-> LabelOf(t[i].skills_list, top)]]

SkillsFileError(version) ==
    [kind |-> "st.error",
     text |-> IF version = "root"
              THEN "File 'database_ai_job_final.csv' not found. Please ensure it is in the main directory."
              ELSE "Data file not found. Please check 'ai_job_dataset - all.csv' exists."]
LevelWarning == [kind |-> "st.warning", text |-> "Please select at least one experience level."]
NotEnoughData ==
    [kind |-> "st.warning",
     text |-> "Not enough data to display (need at least 10 job postings per skill)."]
NoDataWarning == [kind |-> "st.warning", text |-> "No data to display."]
TextPosError ==
    [kind |-> "ValueError", text |-> "Cannot set a DataFrame with multiple columns"]

\* root lines 139-141: only the root copy checks skill_stats.empty before the
\* score and label logic
ChecksEmptyFirst(version) == version = "root"

\* the rest of main() once skill_stats is filtered and rounded.
\* In the nested copy an empty table reaches skill_stats.apply(..., axis=1),
\* which returns a DataFrame for an empty frame; whether assigning it to the
\* TextPos column raises depends on the pandas version, so both outcomes are
\* possible.
ScoreAndPlot(version, filtered, scored, top) ==
    LET early == <<"aggregate", "filter", "round">>
        full == [skill_stats |-> WithLabel(scored, top), top_skills |-> top,
                 steps |-> early \o <<"score", "label", "textpos">>,
                 outcome |-> "stopped", message |-> NoMessage]
    IN  IF filtered = << >>
        THEN { [full EXCEPT !.outcome = "exception", !.message = TextPosError],
               [full EXCEPT !.message = NoDataWarning] }
        ELSE {[full EXCEPT !.steps = @ \o <<"chart">>, !.outcome = "rendered"]}

\* the outcomes of one execution of main() for the widget values ca and lc
RunSkills(version, t, ca, lc) ==
    LET none == [skill_stats |-> << >>, top_skills |-> << >>, steps |-> << >>,
                 outcome |-> "stopped", message |-> NoMessage]
    IN  IF ~file_found
        THEN {[none EXCEPT !.message = SkillsFileError(version)]}
        ELSE IF FinalSelection(t, ca, lc) = << >>
        THEN {[none EXCEPT !.message = LevelWarning]}
        ELSE UNION {
               IF ChecksEmptyFirst(version) /\ filtered = << >>
               THEN {[none EXCEPT !.steps = <<"aggregate", "filter", "round">>,
                                  !.message = NotEnoughData]}
               ELSE UNION { UNION { ScoreAndPlot(version, filtered, scored, top)
                                    : top \in {NLargest(scored, num_labels)} }
                            : scored \in {WithScore(filtered)} }
               : filtered \in {RoundSalary(FilterNoise(t))} }

ExecuteSkills(ca, lc, why) ==
    \E r \in RunSkills(skills_version, agg_stats, ca, lc) :
        /\ check_all' = ca
        /\ level_checked' = lc
        /\ skill_stats' = r.skill_stats
        /\ top_skills' = r.top_skills
        /\ steps' = r.steps
        /\ outcome' = r.outcome
        /\ message' = r.message
        /\ trigger' = why
        /\ UNCHANGED <<file_found, pageVars, skills_version, agg_stats, restVars>>

\* the first execution: every checkbox is created with value=True
SkillsLoad ==
    /\ outcome = "idle"
    /\ ExecuteSkills(check_all, level_checked, "load")

\* the user ticks or unticks "All Levels"
ToggleAllLevels ==
    /\ outcome \in {"stopped", "exception", "rendered"}
    /\ file_found
    /\ ExecuteSkills(~check_all, level_checked, "widget")

\* the user ticks or unticks the checkbox of the experience level
ToggleLevel ==
    /\ outcome \in {"stopped", "exception", "rendered"}
    /\ file_found
    /\ AllLevelsOf(agg_stats) # << >>
    /\ ExecuteSkills(check_all, ~level_checked, "widget")

\* the comparison page is not open
PageClosed ==
    /\ df = << >>
    /\ df_columns = {}
    /\ checked = default_metrics
    /\ METRICS_CONFIG = << >>
    /\ selected_metrics = << >>
    /\ loop_config = << >>
    /\ plot_data = << >>
    /\ plot_df = << >>
    /\ temp_df = << >>
    /\ job_order = << >>
    /\ pivot_df = << >>

InitSkills ==
    /\ PageClosed
    /\ RestClosed
    /\ file_found \in BOOLEAN
    /\ skills_version \in {"root", "nested"}
    /\ agg_stats \in (IF file_found THEN SkillTables ELSE {<< >>})
    /\ check_all = TRUE
    /\ level_checked = TRUE
    /\ skill_stats = << >>
    /\ top_skills = << >>
    /\ steps = << >>
    /\ outcome = "idle"
    /\ message = NoMessage
    /\ trigger = "none"

NextSkills ==
    \/ SkillsLoad
    \/ ToggleAllLevels
    \/ ToggleLevel

SpecSkills == InitSkills /\ [][NextSkills]_vars

-----------------------------------------------------------------------------
(* Home.py.  One action is one user interaction together with the script   *)
(* executions it causes, st.rerun() included.  The map is drawn with       *)
(* on_select="rerun": its selection is widget state, which Streamlit keeps *)
(* from one execution to the next as long as the same chart is drawn, and  *)
(* drops when an execution does not draw it.                               *)

\* countries of the dataset: employee_residence values and company_location values
emp_countries == {"Germany", "India", "Chile"}
comp_countries == {"Germany", "India", "Malta"}
all_countries == emp_countries \cup comp_countries

CompareModes == {"Standard View", "Compare Employees", "Compare Companies"}
ViewModes == {"Comparator", "Employee Residence", "Company Location"}

\* get_category(c)
get_category(c) ==
    IF c \in emp_countries /\ c \in comp_countries THEN "Both (Employees & Companies)"
    ELSE IF c \in emp_countries THEN "Employees Only"
    ELSE "Companies Only"

\* countries drawn on the map of a view mode
MapCountries(vm) ==
    IF vm = "Comparator" THEN all_countries
    ELSE IF vm = "Employee Residence" THEN emp_countries
    ELSE comp_countries

\* a reset that leaves the compare mode as it is
reset_app_keeps_mode(st) ==
    [st EXCEPT !.primary_country = None, !.secondary_country = None,
               !.show_global_top10 = FALSE]

\* reset_app()
reset_app(st) ==
    [primary_country |-> None, secondary_country |-> None,
     compare_mode |-> "Standard View", show_global_top10 |-> FALSE]

\* lines 314-320: if clicked_country: ...
ClickHandling(st, clicked_country) ==
    IF clicked_country = None THEN st
    ELSE IF st.primary_country = None
    THEN [st EXCEPT !.primary_country = clicked_country]
    ELSE IF st.compare_mode # "Standard View" /\ clicked_country # st.primary_country
    THEN [st EXCEPT !.secondary_country = clicked_country]
    ELSE st

\* lines 361-363: req, the compare mode of a country that is not in both sets
RequiredMode(c) ==
    IF get_category(c) = "Employees Only" THEN "Compare Employees" ELSE "Compare Companies"

\* a mode switch that keeps the secondary country
SwitchKeepsSecondary(st, mode) == [st EXCEPT !.compare_mode = mode]

\* lines 357-358
SwitchMode(st, mode) == [st EXCEPT !.compare_mode = mode, !.secondary_country = None]

\* one execution of the script and the executions its st.rerun() calls start.
\* st is the session state, sel the selection of the map, vm the view mode,
\* global and reset tell which button was pressed, radio is the option of the
\* "Mode:" radio the user picked (None: untouched, the radio shows compare_mode).
RECURSIVE HomeScript(_, _, _, _, _, _)
HomeScript(st, sel, vm, global, reset, radio) ==
    LET toggled == IF global THEN [st EXCEPT !.show_global_top10 = ~@] ELSE st
        clicked == ClickHandling(toggled, sel)
        mode == IF radio = None THEN clicked.compare_mode ELSE radio
    IN  IF reset
        THEN HomeScript(reset_app(toggled), sel, vm, FALSE, FALSE, None)
        ELSE IF vm # "Comparator" THEN toggled
        ELSE IF clicked.primary_country = None THEN clicked
        ELSE IF get_category(clicked.primary_country) = "Both (Employees & Companies)"
        THEN IF mode # clicked.compare_mode
             THEN HomeScript(SwitchMode(clicked, mode), sel, vm, FALSE, FALSE, None)
             ELSE clicked
        ELSE [clicked EXCEPT !.compare_mode = RequiredMode(clicked.primary_country)]

SessionState ==
    [primary_country |-> primary_country, secondary_country |-> secondary_country,
     compare_mode |-> compare_mode, show_global_top10 |-> show_global_top10]

HomeFileError ==
    [kind |-> "st.error",
     text |-> "Data file 'database_ai_job_final.csv' not found. Please ensure it is in the same directory."]

\* the user does something (why) and the script runs with the widget values
ExecuteHome(sel, vm, global, reset, radio, why) ==
    /\ file_found
    /\ \E st \in {HomeScript(SessionState, sel, vm, global, reset, radio)} :
        /\ primary_country' = st.primary_country
        /\ secondary_country' = st.secondary_country
        /\ compare_mode' = st.compare_mode
        /\ show_global_top10' = st.show_global_top10
    /\ selection' = sel
    /\ view_mode' = vm
    /\ outcome' = "rendered"
    /\ message' = NoMessage
    /\ trigger' = why
    /\ UNCHANGED <<file_found, pageVars, skillVars, salaryVars, mergeVars>>

\* the page is opened: lines 16-23 leave the initial session state
HomeLoad ==
    /\ outcome = "idle"
    /\ IF file_found
       THEN ExecuteHome(selection, view_mode, FALSE, FALSE, None, "load")
       ELSE /\ outcome' = "stopped"
            /\ message' = HomeFileError
            /\ trigger' = "load"
            /\ UNCHANGED <<file_found, pageVars, skillVars, restVars>>

\* the user clicks country c on the displayed map
MapClick(c) ==
    /\ outcome = "rendered"
    /\ c \in MapCountries(view_mode)
    /\ c # selection
    /\ ExecuteHome(c, view_mode, FALSE, FALSE, None, "map_click")

\* the user clears the selection of the map (double click)
MapDeselect ==
    /\ outcome = "rendered"
    /\ selection # None
    /\ ExecuteHome(None, view_mode, FALSE, FALSE, None, "map_deselect")

\* the user picks another view mode: the other map is drawn, without selection
SetViewMode(vm) ==
    /\ outcome = "rendered"
    /\ vm # view_mode
    /\ ExecuteHome(None, vm, FALSE, FALSE, None, "view_mode")

\* the button "Global Countries"
ToggleGlobal ==
    /\ outcome = "rendered"
    /\ ExecuteHome(selection, view_mode, TRUE, FALSE, None, "global")

\* the button "Reset Selection"
ResetSelection ==
    /\ outcome = "rendered"
    /\ ExecuteHome(selection, view_mode, FALSE, TRUE, None, "reset")

\* the user picks another option of the "Mode:" radio, which the last
\* execution drew for a primary country that is in both sets
SetCompareMode(mode) ==
    /\ outcome = "rendered"
    /\ view_mode = "Comparator"
    /\ primary_country # None
    /\ get_category(primary_country) = "Both (Employees & Companies)"
    /\ mode # compare_mode
    /\ ExecuteHome(selection, view_mode, FALSE, FALSE, mode, "compare_mode")

InitHome ==
    /\ PageClosed
    /\ SkillsClosed
    /\ SalaryClosed
    /\ MergeClosed
    /\ HomeClosed
    /\ file_found \in BOOLEAN
    /\ outcome = "idle"
    /\ message = NoMessage
    /\ trigger = "none"

NextHome ==
    \/ HomeLoad
    \/ \E c \in all_countries : MapClick(c)
    \/ MapDeselect
    \/ \E vm \in ViewModes : SetViewMode(vm)
    \/ ToggleGlobal
    \/ ResetSelection
    \/ \E mode \in CompareModes : SetCompareMode(mode)

SpecHome == InitHome /\ [][NextHome]_vars

-----------------------------------------------------------------------------
(* The page "Salary Distribution by Job Title (USD)".  A run starts from   *)
(* job_counts, the value_counts() of job_title after the sidebar filters,  *)
(* and from n_countries, the number of countries the dot plot finds for    *)
(* the selected job.  value_counts() does not fix the order of titles of   *)
(* equal count, so head(top_n) may keep any of them.                       *)

\* top_n slider: min_value=5, max_value=14, value=10
TopNMin == 5
TopNMax == 14
TopNDefault == 10

\* job_counts >= 5
MinRecords == 5

\* min(30, len(country_counts)), min(5, max_slider), min(10, max_slider)
MaxSliderCap == 30
MinSliderCap == 5
DefaultSliderCap == 10

MaxRecords == 6        \* records of the most frequent titles
MaxCountries == 32     \* countries of the selected job: 0..MaxCountries

TitleNames == <<"Analyst", "Architect", "Consultant", "Engineer", "Researcher", "Scientist">>
Titles == {TitleNames[k] : k \in DOMAIN TitleNames}

\* tables of records per title: below the threshold, at it, above it
JobTables == [Titles -> {MinRecords - 1, MinRecords, MaxRecords}]

Min2(a, b) == IF a < b THEN a ELSE b

\* titles kept whatever their number of records
ValidJobsAll(jc) == DOMAIN jc

\* job_counts[job_counts >= 5].index
ValidJobs(jc) == {t \in DOMAIN jc : jc[t] >= MinRecords}

\* filtered_df["job_title"].value_counts().head(top_n).index: the possible results
TopJobs(jc, valid, n) ==
    {S \in SUBSET valid :
        /\ Cardinality(S) = Min2(n, Cardinality(valid))
        /\ \A a \in S, b \in valid \ S : jc[a] >= jc[b]}

\* a lower end of the slider that ignores max_slider
SliderMinFixed(max_slider) == MinSliderCap

\* min_slider = min(5, max_slider)
SliderMin(max_slider) == Min2(MinSliderCap, max_slider)

\* the arguments of the country slider for n countries
CountrySlider(n) ==
    LET max_slider == Min2(MaxSliderCap, n)
    IN  [min_value |-> SliderMin(max_slider),
         max_value |-> max_slider,
         value |-> Min2(DefaultSliderCap, max_slider)]

\* len(country_counts.head(num_countries))
CountriesShown(n, num) == Min2(n, num)

NoTitlesWarning ==
    [kind |-> "st.warning", text |-> "No job titles with at least 5 records after filtering."]
FileNotFound == [kind |-> "FileNotFoundError", text |-> "database_ai_job_final.csv"]
NoCountryInfo ==
    [kind |-> "st.info", text |-> "Not enough data to display country stats for this role."]

\* the outcomes of one execution of the script; tn and nc are the values of
\* the two sliders (nc = 0: the country slider shows its default)
SalaryScript(jc, tn, cc, n, nc) ==
    LET valid == ValidJobs(jc)
        none == [valid_jobs |-> valid, top_jobs |-> {}, slider |-> << >>,
                 num_countries |-> 0, shown_countries |-> 0,
                 outcome |-> "stopped", message |-> NoMessage]
        args == CountrySlider(n)
        num == IF nc = 0 THEN args.value ELSE nc
    IN  IF ~file_found
        THEN {[none EXCEPT !.valid_jobs = {}, !.outcome = "exception", !.message = FileNotFound]}
        ELSE IF valid = {}
        THEN {[none EXCEPT !.message = NoTitlesWarning]}
        ELSE { IF ~cc
               THEN [none EXCEPT !.top_jobs = top, !.outcome = "exception",
                                 !.message = KeyError("country")]
               ELSE IF n > 0
               THEN [none EXCEPT !.top_jobs = top, !.slider = args, !.num_countries = num,
                                 !.shown_countries = CountriesShown(n, num), !.outcome = "rendered"]
               ELSE [none EXCEPT !.top_jobs = top, !.outcome = "rendered",
                                 !.message = NoCountryInfo]
               : top \in TopJobs(jc, valid, tn) }

ExecuteSalary(tn, nc, why) ==
    \E r \in SalaryScript(job_counts, tn, country_column, n_countries, nc) :
        /\ top_n' = tn
        /\ valid_jobs' = r.valid_jobs
        /\ top_jobs' = r.top_jobs
        /\ slider' = r.slider
        /\ num_countries' = r.num_countries
        /\ shown_countries' = r.shown_countries
        /\ outcome' = r.outcome
        /\ message' = r.message
        /\ trigger' = why
        /\ UNCHANGED <<file_found, pageVars, skillVars, homeVars, mergeVars,
                       job_counts, country_column, n_countries>>

\* the first execution: both sliders at their defaults
SalaryLoad ==
    /\ outcome = "idle"
    /\ ExecuteSalary(top_n, 0, "load")

\* the user moves the Top N slider
SetTopN(v) ==
    /\ outcome \in {"stopped", "rendered"} \/ (outcome = "exception" /\ file_found)
    /\ v \in TopNMin..TopNMax
    /\ v # top_n
    /\ ExecuteSalary(v, num_countries, "top_n")

\* the user moves the country slider the last execution drew
SetNumCountries(v) ==
    /\ outcome = "rendered"
    /\ slider # << >>
    /\ v \in slider.min_value..slider.max_value
    /\ v # num_countries
    /\ ExecuteSalary(top_n, v, "num_countries")

\* every title with enough records
AllValid == [t \in Titles |-> MinRecords]

InitSalary ==
    /\ PageClosed
    /\ SkillsClosed
    /\ HomeClosed
    /\ MergeClosed
    /\ file_found \in BOOLEAN
    /\ \/ /\ job_counts \in (IF file_found THEN JobTables ELSE {AllValid})
          /\ country_column = file_found
          /\ n_countries = (IF file_found THEN 2 ELSE 0)
       \/ /\ file_found
          /\ job_counts = AllValid
          /\ country_column \in BOOLEAN
          /\ n_countries \in (IF country_column THEN 0..MaxCountries ELSE {0})
    /\ top_n = TopNDefault
    /\ valid_jobs = {}
    /\ top_jobs = {}
    /\ slider = << >>
    /\ num_countries = 0
    /\ shown_countries = 0
    /\ outcome = "idle"
    /\ message = NoMessage
    /\ trigger = "none"

NextSalary ==
    \/ SalaryLoad
    \/ \E v \in TopNMin..TopNMax : SetTopN(v)
    \/ \E v \in 1..MaxSliderCap : SetNumCountries(v)

SpecSalary == InitSalary /\ [][NextSalary]_vars

-----------------------------------------------------------------------------
(* preprocessing.py: preprocess_and_merge().  A dataset is a record of its *)
(* columns and its rows; a row maps each column to a cell.  A job id is    *)
(* the text "AI" followed by decimal digits.                               *)

MaxMergeRows == 3      \* rows of each input dataset: 0..MaxMergeRows

\* the width of the format f"AI{...:05d}"
IdWidth == 5

\* the decimal digits of n >= 0
RECURSIVE DecimalDigits(_)
DecimalDigits(n) == IF n < 10 THEN <<n>> ELSE Append(DecimalDigits(n \div 10), n % 10)

\* zero padding on the left up to width digits
RECURSIVE ZeroPad(_, _)
ZeroPad(ds, width) == IF Len(ds) >= width THEN ds ELSE ZeroPad(<<0>> \o ds, width)

\* f"AI{k:05d}"
FormatId(k) == [prefix |-> "AI", digits |-> ZeroPad(DecimalDigits(k), IdWidth)]

\* a cell of a column other than job_id
Cell == "value"

\* a row of a dataset with columns cols and job id number k
MergeRow(cols, k) == [c \in cols |-> IF c = "job_id" THEN FormatId(k) ELSE Cell]

\* pd.read_csv(file): n rows whose ids are numbered from first on
Dataset(cols, n, first) == [columns |-> cols, rows |-> [i \in 1..n |-> MergeRow(cols, first + i - 1)]]

ColumnSets == {{"job_id", "salary_usd"}, {"job_id", "salary_usd", "salary_local"}}

\* first datasets: ids AI00001.. as in the raw files, or starting at AI00002
FirstDatasets ==
    {Dataset(cols, n, first) : cols \in ColumnSets, n \in 0..MaxMergeRows, first \in {1, 2}}

\* second datasets: ids AI00001.. as in the raw files, or no job_id column
SecondDatasets ==
    {Dataset(cols, n, 1) : cols \in ColumnSets \cup {{"salary_usd"}}, n \in 0..MaxMergeRows}

\* no offset: the ids of the second dataset start at AI00001 again
OffsetNone(d) == 0

\* offset = len(df1)
Offset(d) == Len(d.rows)

\* df2['job_id'] = [f"AI{i+1+offset:05d}" for i in range(len(df2))]
Renumber(d, offset) ==
    [columns |-> d.columns \cup {"job_id"},
     rows |-> [i \in DOMAIN d.rows |->
                 [c \in d.columns \cup {"job_id"} |->
                     IF c = "job_id" THEN FormatId((i - 1) + 1 + offset) ELSE d.rows[i][c]]]]

\* pd.concat([df1, df2], ignore_index=True): a column one side lacks holds NaN there
ConcatFrames(a, b) ==
    LET cols == a.columns \cup b.columns
        fill(d, i) == [c \in cols |-> IF c \in d.columns THEN d.rows[i][c] ELSE "NaN"]
    IN  [columns |-> cols,
         rows |-> [i \in DOMAIN a.rows |-> fill(a, i)] \o [i \in DOMAIN b.rows |-> fill(b, i)]]

\* if 'salary_local' in df_final.columns: df_final.drop(columns=['salary_local'])
DropSalaryLocal(d) ==
    IF "salary_local" \in d.columns
    THEN [columns |-> d.columns \ {"salary_local"},
          rows |-> [i \in DOMAIN d.rows |->
                      [c \in d.columns \ {"salary_local"} |-> d.rows[i][c]]]]
    ELSE d

InputsMissing == [kind |-> "print", text |-> "Error: Input files not found."]
Success == [kind |-> "print", text |-> "Success!"]

\* preprocess_and_merge()
preprocess_and_merge ==
    /\ outcome = "idle"
    /\ IF ~file1_exists \/ ~file2_exists
       THEN /\ outcome' = "stopped"
            /\ message' = InputsMissing
            /\ UNCHANGED <<df2, output_file>>
       ELSE \E renumbered \in {Renumber(df2, Offset(df1))} :
            /\ df2' = renumbered
            /\ output_file' = DropSalaryLocal(ConcatFrames(df1, renumbered))
            /\ outcome' = "saved"
            /\ message' = Success
    /\ trigger' = "main"
    /\ UNCHANGED <<file_found, pageVars, skillVars, homeVars, salaryVars,
                   file1_exists, file2_exists, df1>>

InitMerge ==
    /\ PageClosed
    /\ SkillsClosed
    /\ HomeClosed
    /\ SalaryClosed
    /\ file_found = FALSE
    /\ file1_exists \in BOOLEAN
    /\ file2_exists \in BOOLEAN
    /\ df1 \in (IF file1_exists THEN FirstDatasets ELSE {<< >>})
    /\ df2 \in (IF file2_exists THEN SecondDatasets ELSE {<< >>})
    /\ output_file = NotWritten
    /\ outcome = "idle"
    /\ message = NoMessage
    /\ trigger = "none"

NextMerge == preprocess_and_merge

SpecMerge == InitMerge /\ [][NextMerge]_vars

-----------------------------------------------------------------------------
(* Properties of the normalization step (checked under SpecNorm).          *)

Normalized == outcome = "normalized"

Rows == DOMAIN temp_df

\* the non-NaN raw values of temp_df
DefinedRaw == {temp_df[i].raw_value : i \in {k \in Rows : ~temp_df[k].raw_value.nan}}

\* v is the least (greatest) defined raw value of temp_df
IsLeast(v) == v \in DefinedRaw /\ \A w \in DefinedRaw : FLe(v, w)
IsGreatest(v) == v \in DefinedRaw /\ \A w \in DefinedRaw : FLe(w, v)

\* the raw values of temp_df are not all equal
Spread == \E v \in DefinedRaw : \E w \in DefinedRaw : v # w

\* C1: every normalized_value the normalization step produces lies in the
\* closed interval [0.02, 1.0] (checked on the rendered table of SpecPage).
C1_NormalizedInRange ==
    outcome = "rendered" =>
        \A i \in DOMAIN plot_df :
            /\ ~plot_df[i].normalized_value.nan
            /\ FLe(Frac(2, 100), plot_df[i].normalized_value)
            /\ FLe(plot_df[i].normalized_value, Frac(1, 1))

\* C2: when all raw values are equal (max == min), every normalized_value is
\* exactly 1.0, also for a single group.
C2_TieGivesOne ==
    (Normalized /\ DefinedRaw # {} /\ ~Spread) =>
        \A i \in Rows : temp_df[i].normalized_value = Frac(1, 1)

C2_Witness ==
    /\ Normalized
    /\ Len(temp_df) >= 2
    /\ \A i \in Rows : temp_df[i].raw_value = Frac(100, 1)
    /\ \A i \in Rows : temp_df[i].normalized_value = Frac(1, 1)

\* max((raw - lo) / (hi - lo), 0.02), from the definition of the claim
C3_Expected(raw, lo, hi) ==
    LET q == FDiv(FSub(raw, lo), FSub(hi, lo))
    IN  IF FLt(q, Frac(2, 100)) THEN Frac(2, 100) ELSE q

\* C3: when the raw values are not all equal, normalized_value is
\* max((raw - min) / (max - min), 0.02) with min and max over this frame's raw
\* values; a group at the minimum gets 0.02, a group at the maximum 1.0, and
\* raw {A:0, B:50, C:100} gives {A:0.02, B:0.5, C:1.0}.
C3_MinMaxFormula ==
    (Normalized /\ Spread) =>
        \A i \in Rows : \A lo \in DefinedRaw : \A hi \in DefinedRaw :
            (IsLeast(lo) /\ IsGreatest(hi) /\ ~temp_df[i].raw_value.nan) =>
                /\ temp_df[i].normalized_value = C3_Expected(temp_df[i].raw_value, lo, hi)
                /\ temp_df[i].raw_value = lo => temp_df[i].normalized_value = Frac(2, 100)
                /\ temp_df[i].raw_value = hi => temp_df[i].normalized_value = Frac(1, 1)

C3_Witness ==
    /\ Normalized
    /\ Len(temp_df) = 3
    /\ temp_df[1] = [job_title |-> "A", raw_value |-> Frac(0, 1),
                     normalized_value |-> Frac(2, 100)]
    /\ temp_df[2] = [job_title |-> "B", raw_value |-> Frac(50, 1),
                     normalized_value |-> Frac(1, 2)]
    /\ temp_df[3] = [job_title |-> "C", raw_value |-> Frac(100, 1),
                     normalized_value |-> Frac(1, 1)]

\* C4: normalization is monotonic within one frame: raw a < b implies
\* normalized(a) <= normalized(b), also after the 0.02 floor.
C4_Monotonic ==
    Normalized =>
        \A i \in Rows : \A j \in Rows :
            FLt(temp_df[i].raw_value, temp_df[j].raw_value) =>
                FLe(temp_df[i].normalized_value, temp_df[j].normalized_value)

C4_Witness ==
    /\ Normalized
    /\ \E i \in Rows : \E j \in Rows :
          /\ FLt(temp_df[i].raw_value, temp_df[j].raw_value)
          /\ temp_df[i].normalized_value = Frac(2, 100)
          /\ FLt(temp_df[i].normalized_value, temp_df[j].normalized_value)
          /\ FLt(temp_df[j].normalized_value, Frac(1, 1))

-----------------------------------------------------------------------------
(* Properties of the page script (checked under SpecPage).                 *)

Ran == outcome # "idle"

\* the run reported a failure through st.error / st.warning and st.stop()
Reported == outcome = "stopped" /\ message.kind \in {"st.error", "st.warning"}

\* C5: with no metric selected the run reports "select at least one metric"
\* and stops: nothing is aggregated, normalized, concatenated or rendered,
\* and no default selection is substituted.
C5_NoMetricsStops ==
    (Ran /\ file_found /\ checked = {}) =>
        /\ outcome = "stopped"
        /\ message = NoMetricsWarning
        /\ selected_metrics = << >>
        /\ plot_data = << >>
        /\ plot_df = << >>
        /\ temp_df = << >>

C5_Witness ==
    /\ trigger = "widget"
    /\ checked = {}
    /\ outcome = "stopped"
    /\ message = NoMetricsWarning
    /\ Len(df) > 0

\* C6: when the grouping column job_title is not a column of the dataset, the
\* run reports the failure instead of crashing, and produces no table.
C6_InvalidGroupKeyReported ==
    (Ran /\ file_found /\ checked # {} /\ "job_title" \notin df_columns) =>
        Reported /\ plot_df = << >>

\* a ticked metric whose aggregator needs a column that df does not have
NeedsAbsentColumn ==
    \E m \in checked :
        /\ ConfigFor(df_columns)[m].agg \in {"mean", "nunique"}
        /\ ConfigFor(df_columns)[m].column \notin df_columns

\* C7: when a selected MEAN or COUNT_DISTINCT metric names a column absent
\* from the dataset, the run reports the failure instead of crashing; a COUNT
\* metric with no source column never causes it.
C7_InvalidMetricColumnReported ==
    /\ (Ran /\ file_found /\ "job_title" \in df_columns /\ NeedsAbsentColumn) => Reported
    /\ (Ran /\ file_found /\ "job_title" \in df_columns /\ checked = {"Job Count"}) =>
           outcome = "rendered"

C9_RowsOf(j) == {i \in DOMAIN df : df[i]["job_title"] = j}

\* C9: for the COUNT metric, the raw value of each group is the number of
\* dataset rows of that group, whatever the other columns hold; rows with
\* job A, A, B give raw {A:2, B:1}.
C9_CountIsGroupSize ==
    (outcome = "rendered" /\ "Job Count" \in checked) =>
        /\ \A i \in DOMAIN plot_df :
              plot_df[i].metric = "Job Count" =>
                  plot_df[i].raw_value = Frac(Cardinality(C9_RowsOf(plot_df[i].job_title)), 1)
        /\ \A r \in DOMAIN df :
              \E i \in DOMAIN plot_df :
                  /\ plot_df[i].metric = "Job Count"
                  /\ plot_df[i].job_title = df[r]["job_title"]

C9_Witness ==
    /\ outcome = "rendered"
    /\ Len(df) = 3
    /\ df_columns = AllColumns
    /\ df[1]["job_title"] = "A" /\ df[2]["job_title"] = "A" /\ df[3]["job_title"] = "B"
    /\ \E r \in DOMAIN df : df[r]["salary_usd"] = << >>
    /\ \E i \in DOMAIN plot_df :
          /\ plot_df[i].metric = "Job Count" /\ plot_df[i].job_title = "A"
          /\ plot_df[i].raw_value = Frac(2, 1)
    /\ \E i \in DOMAIN plot_df :
          /\ plot_df[i].metric = "Job Count" /\ plot_df[i].job_title = "B"
          /\ plot_df[i].raw_value = Frac(1, 1)

\* rows of df of job title j whose cell in column c is not null
C10_Valued(j, c) == {i \in DOMAIN df : df[i]["job_title"] = j /\ df[i][c] # << >>}

\* C10: for a MEAN metric, the raw value of each group is the arithmetic mean
\* of the non-null values of the source column over the group's rows (nulls
\* are skipped, not counted as zero); salaries A:100, A:200, B:150 give raw
\* {A:150, B:150} and normalized {A:1.0, B:1.0}.
C10_MeanSkipsNulls ==
    outcome = "rendered" =>
        \A i \in DOMAIN plot_df :
            LET c == METRICS_CONFIG[plot_df[i].metric].column
                rows == C10_Valued(plot_df[i].job_title, c)
            IN  (METRICS_CONFIG[plot_df[i].metric].agg = "mean" /\ rows # {}) =>
                    /\ ~plot_df[i].raw_value.nan
                    /\ plot_df[i].raw_value.num * Cardinality(rows)
                          = plot_df[i].raw_value.den * SumCells(df, c, rows)

C10_Witness ==
    /\ outcome = "rendered"
    /\ Len(df) = 3
    /\ df_columns = AllColumns
    /\ df[1]["job_title"] = "A" /\ df[1]["salary_usd"] = <<100>>
    /\ df[2]["job_title"] = "A" /\ df[2]["salary_usd"] = <<200>>
    /\ df[3]["job_title"] = "B" /\ df[3]["salary_usd"] = <<150>>
    /\ plot_df[1] = [job_title |-> "A", raw_value |-> Frac(150, 1),
                     normalized_value |-> Frac(1, 1), metric |-> "Average Salary (USD)"]
    /\ plot_df[2] = [job_title |-> "B", raw_value |-> Frac(150, 1),
                     normalized_value |-> Frac(1, 1), metric |-> "Average Salary (USD)"]

-----------------------------------------------------------------------------
(* Further properties of the page script (checked under SpecPage) and of   *)
(* the aggregation branches (checked under SpecAgg).                       *)

\* the rows of table t that belong to metric m, in table order
RowsOfMetric(t, m) == SelectSeq(t, LAMBDA r : r.metric = m)

\* the job titles that have a row for metric m in plot_df
JobsOfMetric(m) == {plot_df[i].job_title : i \in {k \in DOMAIN plot_df : plot_df[k].metric = m}}

\* C11: for a MEAN metric, a group whose source values are all null has no
\* row for that metric in the comparison table.
C11_AllNullGroupExcluded ==
    outcome = "rendered" =>
        \A i \in DOMAIN plot_df :
            LET c == METRICS_CONFIG[plot_df[i].metric].column
            IN  METRICS_CONFIG[plot_df[i].metric].agg = "mean" =>
                    C10_Valued(plot_df[i].job_title, c) # {}

\* C12: in every table produced, the job titles that have a row are the same
\* for every selected metric: all job titles of the dataset.
C12_SameGroupsPerMetric ==
    outcome = "rendered" =>
        \A k \in DOMAIN selected_metrics :
            /\ JobsOfMetric(selected_metrics[k]) = {df[i]["job_title"] : i \in DOMAIN df}
            /\ JobsOfMetric(selected_metrics[k]) = {job_order[g] : g \in DOMAIN job_order}

C12_Witness ==
    /\ outcome = "rendered"
    /\ Len(selected_metrics) >= 2
    /\ selected_metrics[1] = "Average Salary (USD)"
    /\ Len(job_order) = 2
    /\ C10_Valued("A", "salary_usd") = {}
    /\ C10_Valued("B", "salary_usd") # {}
    /\ JobsOfMetric("Average Salary (USD)") = {"A", "B"}

\* C13: the table is the concatenation of the per-metric blocks in selection
\* order with exactly one row per (job title, metric) pair, so the pivot to
\* job title by metric is well defined.
C13_BlocksInSelectionOrder ==
    outcome = "rendered" =>
        LET G == Len(job_order)
        IN  /\ Len(plot_data) = Len(selected_metrics)
            /\ Len(plot_df) = G * Len(selected_metrics)
            /\ \A k \in DOMAIN selected_metrics : \A g \in DOMAIN job_order :
                  /\ plot_df[(k - 1) * G + g] = plot_data[k][g]
                  /\ plot_df[(k - 1) * G + g].metric = selected_metrics[k]
                  /\ plot_df[(k - 1) * G + g].job_title = job_order[g]
                  /\ pivot_df[job_order[g]][selected_metrics[k]]
                        = plot_df[(k - 1) * G + g].raw_value
            /\ \A i \in DOMAIN plot_df : \A j \in DOMAIN plot_df :
                  (i # j) =>
                      \/ plot_df[i].job_title # plot_df[j].job_title
                      \/ plot_df[i].metric # plot_df[j].metric

C13_Witness ==
    /\ outcome = "rendered"
    /\ Len(selected_metrics) = 3
    /\ Len(job_order) = 2
    /\ Len(plot_df) = 6
    /\ plot_df[1].metric = "Average Salary (USD)"
    /\ plot_df[3].metric = "Job Count"
    /\ plot_df[5].metric = "Remote Work Ratio (%)"
    /\ DOMAIN pivot_df = {"A", "B"}

\* C14: for a COUNT_DISTINCT metric, the raw value of each group is the number
\* of distinct non-null values of the source column in the group's rows.
C14_NuniqueSkipsNulls ==
    (outcome = "aggregated" /\ loop_config.agg = "nunique") =>
        /\ \A g \in DOMAIN temp_df :
              temp_df[g].raw_value =
                  Frac(Cardinality({df[i][loop_config.column] :
                          i \in C10_Valued(temp_df[g].job_title, loop_config.column)}), 1)
        /\ {temp_df[g].job_title : g \in DOMAIN temp_df}
              = {df[i]["job_title"] : i \in DOMAIN df}

C14_Witness ==
    /\ outcome = "aggregated"
    /\ loop_config = [column |-> "salary_usd", agg |-> "nunique"]
    /\ Len(df) = 3
    /\ df[1]["job_title"] = "A" /\ df[1]["salary_usd"] = << >>
    /\ df[2]["job_title"] = "A" /\ df[2]["salary_usd"] = <<100>>
    /\ df[3]["job_title"] = "A" /\ df[3]["salary_usd"] = <<100>>
    /\ temp_df = <<[job_title |-> "A", raw_value |-> Frac(1, 1)]>>

\* C15: the rows of a metric do not depend on which other metrics are
\* selected with it, now or in an earlier run: a run that keeps a metric
\* selected leaves its rows as they were.
C15_MetricRowsIndependent ==
    [][(outcome = "rendered" /\ outcome' = "rendered") =>
          \A m \in checked \cap checked' :
              RowsOfMetric(plot_df', m) = RowsOfMetric(plot_df, m)]_vars

C15_Witness ==
    /\ outcome = "rendered"
    /\ trigger = "widget"
    /\ selected_metrics = <<"Average Salary (USD)", "Job Count">>
    /\ \E i \in DOMAIN plot_df :
          plot_df[i].metric = "Job Count" /\ plot_df[i].normalized_value = Frac(2, 100)
    /\ \E i \in DOMAIN plot_df :
          plot_df[i].metric = "Average Salary (USD)"
              /\ plot_df[i].normalized_value = Frac(2, 100)

\* the dataset names its remote column "Remote Work Ratio (%)" only
RemoteColumnRenamed ==
    "Remote Work Ratio (%)" \in df_columns /\ "remote_ratio" \notin df_columns

ColumnsPresent ==
    \A m \in checked : MissingKey(df_columns, ConfigFor(df_columns)[m]) = None

\* C17: a dataset of zero rows (with the columns the selection needs) yields
\* an empty table and no error: every step completes on zero rows.
C17_EmptyDatasetEmptyTable ==
    (Ran /\ file_found /\ Len(df) = 0 /\ checked # {} /\ ColumnsPresent) =>
        /\ outcome = "rendered"
        /\ message = NoMessage
        /\ plot_df = << >>
        /\ Len(plot_data) = Len(selected_metrics)
        /\ \A k \in DOMAIN plot_data : plot_data[k] = << >>

C17_Witness ==
    /\ outcome = "rendered"
    /\ Len(df) = 0
    /\ Len(selected_metrics) >= 2
    /\ plot_df = << >>

-----------------------------------------------------------------------------
(* Properties of the skills page (checked under SpecSkills).               *)

\* the skill of row i carries its name as label
Labelled(i) == skill_stats[i].Label = skill_stats[i].skills_list

\* salary / max(salary) + demand / max(demand) of row i, from the rounded
\* salaries and the job counts of skill_stats
ExpectedScore(i) ==
    LET S == {skill_stats[j].Average_Salary : j \in DOMAIN skill_stats}
        max_salary == CHOOSE x \in S : \A y \in S : FLe(y, x)
        max_count == CHOOSE c \in {skill_stats[j].Job_Count : j \in DOMAIN skill_stats} :
                        \A j \in DOMAIN skill_stats : skill_stats[j].Job_Count <= c
        a == skill_stats[i].Average_Salary
        n == skill_stats[i].Job_Count
    IN  Frac(a.num * max_salary.den * max_count + n * a.den * max_salary.num,
             a.den * max_salary.num * max_count)

\* rows other than i whose Score is above, or not below, the Score of row i
Above(i) ==
    {j \in DOMAIN skill_stats : FLt(skill_stats[i].Score, skill_stats[j].Score)}
NotBelow(i) ==
    {j \in DOMAIN skill_stats \ {i} : FLe(skill_stats[i].Score, skill_stats[j].Score)}

\* C18: on a rendered chart the Score of every skill is
\* salary/max(salary) + demand/max(demand); a skill carries its name as label
\* only if fewer than num_labels skills score above it, carries the empty
\* label only if at least num_labels other skills score no lower, and every
\* skill is labelled when there are at most num_labels of them.
C18_TopKLabelled ==
    outcome = "rendered" =>
        \A i \in DOMAIN skill_stats :
            /\ skill_stats[i].Score = ExpectedScore(i)
            /\ skill_stats[i].Label \in {skill_stats[i].skills_list, ""}
            /\ Labelled(i) => Cardinality(Above(i)) < num_labels
            /\ ~Labelled(i) => Cardinality(NotBelow(i)) >= num_labels
            /\ Len(skill_stats) <= num_labels => Labelled(i)

C18_Witness ==
    /\ outcome = "rendered"
    /\ Len(skill_stats) > num_labels
    /\ \E i \in DOMAIN skill_stats : i <= num_labels /\ ~Labelled(i)
    /\ \E i \in DOMAIN skill_stats : i > num_labels /\ Labelled(i)

\* C19: among skills of equal Score the earlier row is labelled first, exactly
\* min(num_labels, N) skills are labelled, and a further run on the same
\* input gives the same labels.
C19_TiesStableAndExact ==
    /\ [](outcome = "rendered" =>
            /\ Cardinality({i \in DOMAIN skill_stats : Labelled(i)}) =
                  (IF Len(skill_stats) < num_labels THEN Len(skill_stats) ELSE num_labels)
            /\ \A i, j \in DOMAIN skill_stats :
                  (i < j /\ skill_stats[i].Score = skill_stats[j].Score /\ Labelled(j))
                      => Labelled(i))
    /\ [][(outcome = "rendered" /\ outcome' = "rendered")
            => (skill_stats' = skill_stats /\ top_skills' = top_skills)]_vars

C19_Witness ==
    /\ outcome = "rendered"
    /\ trigger = "widget"
    /\ \E i, j \in DOMAIN skill_stats :
          /\ i < j
          /\ skill_stats[i].Score = skill_stats[j].Score
          /\ Labelled(i)
          /\ ~Labelled(j)

\* C20: when no skill is left after the filters, the run ends with a notice
\* and the empty table reaches neither the scoring, the labelling, the text
\* positioning nor the chart.
C20_EmptyTableStopsFirst ==
    (/\ outcome # "idle"
     /\ file_found
     /\ FinalSelection(agg_stats, check_all, level_checked) # << >>
     /\ FilterNoise(agg_stats) = << >>) =>
        /\ outcome = "stopped"
        /\ message.kind = "st.warning"
        /\ \A k \in DOMAIN steps : steps[k] \notin {"score", "label", "textpos", "chart"}

-----------------------------------------------------------------------------
(* Properties of the Home page session state (checked under SpecHome).     *)

\* C21: whenever primary_country is None, compare_mode is "Standard View"
\* and secondary_country is None.
C21_NoPrimaryMeansStandard ==
    primary_country = None =>
        (compare_mode = "Standard View" /\ secondary_country = None)

C21_Witness ==
    /\ trigger = "reset"
    /\ view_mode = "Comparator"
    /\ primary_country = None
    /\ compare_mode = "Standard View"

\* C22: whenever secondary_country is not None, primary_country is not None,
\* the two differ, and compare_mode is one of the two comparing modes.
C22_SecondaryMeansComparing ==
    secondary_country # None =>
        /\ primary_country # None
        /\ secondary_country # primary_country
        /\ compare_mode \in {"Compare Employees", "Compare Companies"}

C22_Witness ==
    /\ trigger = "map_click"
    /\ secondary_country # None
    /\ secondary_country = selection
    /\ get_category(primary_country) = "Both (Employees & Companies)"

\* C23: a switch of the compare mode leaves secondary_country None, and
\* secondary_country leaves None only through a new map click on a country
\* other than the primary one.
C23_SwitchClearsSecondary ==
    /\ [][trigger' = "compare_mode" => secondary_country' = None]_vars
    /\ [][(secondary_country = None /\ secondary_country' # None) =>
            (trigger' = "map_click" /\ secondary_country' = selection'
               /\ selection' # primary_country')]_vars

-----------------------------------------------------------------------------
(* Properties of the salary page (checked under SpecSalary).               *)

\* C26: after the record-count filter and the Top N step every title kept
\* has at least 5 records, at most top_n (5..14) titles are kept, they are
\* the min(top_n, number of valid titles) most frequent valid titles, and
\* with no valid title the run warns and stops before any chart.
C26_TopNOfValidTitles ==
    (outcome # "idle" /\ file_found) =>
        /\ top_n \in TopNMin..TopNMax
        /\ \A t \in top_jobs : job_counts[t] >= 5
        /\ Cardinality(top_jobs) <= top_n
        /\ \A a \in top_jobs : \A b \in DOMAIN job_counts :
              (b \notin top_jobs /\ job_counts[b] >= 5) => job_counts[a] >= job_counts[b]
        /\ LET enough == {t \in DOMAIN job_counts : job_counts[t] >= 5}
           IN  IF enough = {}
               THEN outcome = "stopped" /\ message = NoTitlesWarning /\ top_jobs = {}
               ELSE /\ outcome # "stopped"
                    /\ Cardinality(top_jobs) =
                          (IF Cardinality(enough) < top_n THEN Cardinality(enough) ELSE top_n)

C26_Witness ==
    /\ outcome = "rendered"
    /\ trigger = "top_n"
    /\ Cardinality(top_jobs) = top_n
    /\ \E b \in DOMAIN job_counts : b \notin top_jobs /\ job_counts[b] >= 5
    /\ \E a \in top_jobs : job_counts[a] > 5

\* C27: for n >= 1 countries the slider is created with max_value = min(30, n),
\* min_value = min(5, max_value), value = min(10, max_value), which satisfy
\* 1 <= min_value <= value <= max_value <= n, and the dot plot shows no more
\* countries than the slider value.
C27_CountrySliderWellFormed ==
    (outcome = "rendered" /\ n_countries >= 1) =>
        /\ slider # << >>
        /\ slider.max_value = (IF n_countries < 30 THEN n_countries ELSE 30)
        /\ slider.min_value = (IF slider.max_value < 5 THEN slider.max_value ELSE 5)
        /\ slider.value = (IF slider.max_value < 10 THEN slider.max_value ELSE 10)
        /\ 1 <= slider.min_value
        /\ slider.min_value <= slider.value
        /\ slider.value <= slider.max_value
        /\ slider.max_value <= n_countries
        /\ num_countries \in slider.min_value..slider.max_value
        /\ shown_countries <= num_countries

C27_Witness ==
    /\ outcome = "rendered"
    /\ trigger = "num_countries"
    /\ n_countries > 30
    /\ slider.max_value = 30
    /\ num_countries = 5
    /\ shown_countries = 5

-----------------------------------------------------------------------------
(* Properties of preprocess_and_merge (checked under SpecMerge).           *)

\* the number a job id spells, or -1 if it is not "AI" and at least 5 digits
RECURSIVE DigitsValue(_)
DigitsValue(ds) ==
    IF ds = << >> THEN 0 ELSE 10 * DigitsValue(SubSeq(ds, 1, Len(ds) - 1)) + ds[Len(ds)]

IdNumber(id) ==
    IF id.prefix = "AI" /\ Len(id.digits) >= 5 /\ \A k \in DOMAIN id.digits : id.digits[k] \in 0..9
    THEN DigitsValue(id.digits)
    ELSE -1

\* the first dataset numbers its rows AI00001 .. AI(len(df1))
FirstIsCanonical ==
    \A i \in DOMAIN df1.rows : IdNumber(df1.rows[i]["job_id"]) = i

\* C28: after a merge the second dataset's ids are AI(len(df1)+1) ..
\* AI(len(df1)+len(df2)), pairwise distinct, and distinct from the first
\* dataset's ids when those are AI00001 .. AI(len(df1)); the merged table has
\* len(df1)+len(df2) rows and no salary_local column; when an input file is
\* missing nothing is written.
C28_RenumberedMerge ==
    /\ (outcome # "idle" /\ (~file1_exists \/ ~file2_exists)) => output_file = NotWritten
    /\ (outcome # "idle" /\ file1_exists /\ file2_exists) =>
        LET n1 == Len(df1.rows)
            n2 == Len(df2.rows)
            out == output_file.rows
        IN  /\ output_file # NotWritten
            /\ Len(out) = n1 + n2
            /\ "salary_local" \notin output_file.columns
            /\ \A i \in DOMAIN out : "salary_local" \notin DOMAIN out[i]
            /\ \A i \in 1..n1 : out[i]["job_id"] = df1.rows[i]["job_id"]
            /\ \A i \in 1..n2 :
                  /\ IdNumber(df2.rows[i]["job_id"]) = n1 + i
                  /\ out[n1 + i]["job_id"] = df2.rows[i]["job_id"]
            /\ \A i, j \in (n1 + 1)..(n1 + n2) :
                  i # j => out[i]["job_id"] # out[j]["job_id"]
            /\ FirstIsCanonical =>
                  \A i, j \in DOMAIN out : i # j => out[i]["job_id"] # out[j]["job_id"]

C28_Witness ==
    /\ outcome = "saved"
    /\ Len(df1.rows) >= 2
    /\ Len(df2.rows) >= 2
    /\ FirstIsCanonical
    /\ "salary_local" \in df1.columns
    /\ Len(output_file.rows) = Len(df1.rows) + Len(df2.rows)

====
